---- MODULE Spec2Model ----
(***************************************************************************)
(* Model of the research pipeline of deep_research:                        *)
(* ResearchManager.run and the stages it drives (plan_searches,            *)
(* perform_searches with its concurrent search tasks, write_report,        *)
(* send_email), as a state machine whose steps are the code between two    *)
(* suspension points (await / yield) of the coroutines.                    *)
(*                                                                         *)
(* Strings built with f-strings are modelled as tuples of their parts,     *)
(* e.g. f"Searches planned ({n} searches), ..." is                         *)
(* <<"Searches planned (", n, " searches), starting to search...">>, and a *)
(* plain string s yielded by the generator is <<s>>.                       *)
(***************************************************************************)
EXTENDS Integers, Sequences, FiniteSets, TLC

(* ---------------- bounds of the model ---------------- *)

\* longest search plan the planner agent returns in the model
MaxPlanLen == 3

\* largest value of the MAX_SEARCHES setting explored
MaxCfgSearches == 2

(* ---------------- input domains ---------------- *)

\* research queries handed to ResearchManager.run
Queries == {"solar power", "wind power"}

\* WebSearchItem values the planner may put in a plan
Items == {[query |-> "term1", reason |-> "why1"],
          [query |-> "term2", reason |-> "why2"]}

\* Python's None, as returned by search on failure
PyNone == "<PyNone>"

\* final_output values of a successful search-agent run
SearchFinalOutputs == {"summary", PyNone}

\* ReportData values the writer agent may return
Reports == {[short_summary |-> "sum", markdown_report |-> "# Test Report"],
            [short_summary |-> "sum", markdown_report |-> "Email sent, research complete"]}

\* messages of the exceptions an agent run may raise
Errors == {"agent failed"}

\* trace id generated for the run
TraceId == "trace_1"

\* search_plan / report before the stage that assigns them has returned
NoPlan == <<>>
NoReport == [short_summary |-> "", markdown_report |-> ""]
NoExc == ""

(* ---------------- helpers ---------------- *)

RECURSIVE SeqsUpTo(_, _)
\* all sequences over S of length at most n
SeqsUpTo(S, n) ==
  IF n = 0 THEN {<<>>}
  ELSE LET shorter == SeqsUpTo(S, n - 1)
       IN shorter \cup {Append(s, x) : s \in {t \in shorter : Len(t) = n - 1}, x \in S}

\* the search plans (WebSearchPlan.searches) the planner agent may return
Plans == SeqsUpTo(Items, MaxPlanLen)

\* Python str() on a search agent's final_output
Str(v) == IF v = PyNone THEN "None" ELSE v

(* ---------------- state ---------------- *)

VARIABLES
  query,          \* argument of ResearchManager.run
  max_searches,   \* AppConfig.max_searches
  pc,             \* position of ResearchManager.run
  out,            \* items yielded to the caller so far, in order
  raised,         \* exception re-raised to the caller (NoExc if none)
  exc,            \* exception caught by run's except clause
  search_plan,    \* run's local search_plan (.searches)
  search_results, \* run's local search_results
  report,         \* run's local report
  tasks,          \* perform_searches' local tasks, one record per task
  done_order,     \* task indices in the order the tasks finished
  num_completed,  \* perform_searches' local num_completed
  results,        \* perform_searches' local results
  calls,          \* number of Runner.run calls per single-call agent
  rets,           \* number of normal returns of each stage method
  writer_input,   \* (query, search_results) formatted into the writer input
  email_input,    \* input handed to the email agent
  email_tool      \* outcome of the send_email tool inside the email agent run

\* state of the entry points of main.py (run, run_research_with_status)
VARIABLES
  m_fn,            \* which entry point is running
  m_query,         \* its query argument, a sequence of characters
  m_pc,            \* its position
  m_run,           \* the ResearchManager.run it is iterating over
  m_pos,           \* number of chunks of m_run consumed so far
  m_out,           \* outputs delivered to its consumer so far, in order
  m_raised,        \* exception that left the entry point (NoExc if none)
  m_ret,           \* value of the "return" statement that ended it
  m_starts,        \* number of ResearchManager.run generators started
  status_messages, \* run_research_with_status' local status_messages
  final_report     \* run_research_with_status' local final_report

\* state of one application of a utility function or of run_research_app
VARIABLES
  u_fn,            \* the function applied
  u_in,            \* its input
  u_out,           \* its result
  u_pc             \* "call" before, "done" after the application

\* variables of the research pipeline
pvars == <<query, max_searches, pc, out, raised, exc, search_plan,
           search_results, report, tasks, done_order, num_completed, results,
           calls, rets, writer_input, email_input, email_tool>>

mvars == <<m_fn, m_query, m_pc, m_run, m_pos, m_out, m_raised, m_ret, m_starts,
           status_messages, final_report>>

uvars == <<u_fn, u_in, u_out, u_pc>>

vars == <<pvars, mvars, uvars>>

\* agents called once per stage through Runner.run
Agents == {"planner", "writer", "email"}

\* stage methods of ResearchManager
Methods == {"plan_searches", "perform_searches", "write_report", "send_email"}

\* the entry points of main.py are not running
MainIdle ==
  /\ m_fn = "none"
  /\ m_query = <<>>
  /\ m_pc = "idle"
  /\ m_run = [items |-> <<>>, raised |-> NoExc]
  /\ m_pos = 0
  /\ m_out = <<>>
  /\ m_raised = NoExc
  /\ m_ret = <<>>
  /\ m_starts = 0
  /\ status_messages = <<>>
  /\ final_report = <<>>

\* no utility function is being applied
UtilIdle ==
  /\ u_fn = "none"
  /\ u_in = <<>>
  /\ u_out = <<>>
  /\ u_pc = "idle"

Init ==
  /\ query \in Queries
  /\ max_searches \in 1..MaxCfgSearches
  /\ pc = "yield_trace"
  /\ out = <<>>
  /\ raised = NoExc
  /\ exc = NoExc
  /\ search_plan = NoPlan
  /\ search_results = <<>>
  /\ report = NoReport
  /\ tasks = <<>>
  /\ done_order = <<>>
  /\ num_completed = 0
  /\ results = <<>>
  /\ calls = [a \in Agents |-> 0]
  /\ rets = [m \in Methods |-> 0]
  /\ writer_input = <<>>
  /\ email_input = <<>>
  /\ email_tool = "not_called"
  /\ MainIdle
  /\ UtilIdle

(* ---------------- outcomes of Runner.run ---------------- *)

\* an agent run either returns a final output (ok) or raises an Exception
PlannerOutcomes ==
  {[ok |-> TRUE, val |-> p, err |-> NoExc] : p \in Plans}
    \cup {[ok |-> FALSE, val |-> NoPlan, err |-> e] : e \in Errors}

SearchOutcomes ==
  {[ok |-> TRUE, val |-> v, err |-> NoExc] : v \in SearchFinalOutputs}
    \cup {[ok |-> FALSE, val |-> PyNone, err |-> e] : e \in Errors}

WriterOutcomes ==
  {[ok |-> TRUE, val |-> r, err |-> NoExc] : r \in Reports}
    \cup {[ok |-> FALSE, val |-> NoReport, err |-> e] : e \in Errors}

\* the email agent run returns whether or not its send_email tool delivered
\* the mail (the tool returns a status dict, it never raises), or raises
EmailOutcomes ==
  {[ok |-> TRUE, val |-> t, err |-> NoExc] : t \in {"success", "error", "not_called"}}
    \cup {[ok |-> FALSE, val |-> "not_called", err |-> e] : e \in Errors}

(* ---------------- the stage methods ---------------- *)

\* each method maps the outcome of its Runner.run call to what the method
\* does: return a value (raised = FALSE) or raise (raised = TRUE)

plan_searches(o) ==
  IF o.ok THEN [raised |-> FALSE, val |-> o.val, err |-> NoExc]
  ELSE [raised |-> TRUE, val |-> NoPlan, err |-> o.err]

\* variant of search that hands the error text back as if it were a result
searchReturnsError(o) ==
  IF o.ok THEN [raised |-> FALSE, val |-> Str(o.val), err |-> NoExc]
  ELSE [raised |-> FALSE, val |-> o.err, err |-> NoExc]

\* variant of search without the try/except: the agent's exception propagates
searchPropagates(o) ==
  IF o.ok THEN [raised |-> FALSE, val |-> Str(o.val), err |-> NoExc]
  ELSE [raised |-> TRUE, val |-> PyNone, err |-> o.err]

\* try: result = await Runner.run(search_agent, input_text);
\*      return str(result.final_output)
\* except Exception: return None
search(o) ==
  IF o.ok THEN [raised |-> FALSE, val |-> Str(o.val), err |-> NoExc]
  ELSE [raised |-> FALSE, val |-> PyNone, err |-> NoExc]

write_report(o) ==
  IF o.ok THEN [raised |-> FALSE, val |-> o.val, err |-> NoExc]
  ELSE [raised |-> TRUE, val |-> NoReport, err |-> o.err]

send_email(o) ==
  IF o.ok THEN [raised |-> FALSE, val |-> o.val, err |-> NoExc]
  ELSE [raised |-> TRUE, val |-> o.val, err |-> o.err]

\* input_text of search: the item's query and reason
SearchInput(item) == <<"Search term: ", item.query, "Reason for searching: ", item.reason>>

\* input_text of write_report: the query and the list of results
WriterInput(q, rs) == [query |-> q, search_results |-> rs]

\* variant of CreateTasks that leaves out the last item of the plan
CreateTasksSkipLast(searches) ==
  [i \in 1..(Len(searches) - 1) |->
     [item |-> searches[i], st |-> "created", input |-> <<>>, calls |-> 0,
      ok |-> FALSE, final_output |-> PyNone,
      raised |-> FALSE, result |-> PyNone]]

\* tasks = [asyncio.create_task(self.search(item)) for item in searches]
CreateTasks(searches) ==
  [i \in 1..Len(searches) |->
     [item |-> searches[i], st |-> "created", input |-> <<>>, calls |-> 0,
      ok |-> FALSE, final_output |-> PyNone,
      raised |-> FALSE, result |-> PyNone]]

(* ---------------- ResearchManager.run: the yields ---------------- *)

\* the generator hands one item to its caller
Yield(item) == out' = Append(out, item)

TraceLink == <<"View trace: https://platform.openai.com/traces/trace?trace_id=", TraceId>>
StartingMsg == <<"Starting research...">>
PlannedMsg(n) == <<"Searches planned (", n, " searches), starting to search...">>
CompleteMsg(n) == <<"Searches complete (", n, " results), writing report...">>
WrittenMsg == <<"Report written, sending email...">>
EmailSentMsg == <<"Email sent, research complete">>
\* f"... Error during research: {str(e)}" (the leading cross-mark symbol of the
\* source string is left out)
ErrorMsg(e) == <<"Error during research: ", e>>

YieldTrace ==
  /\ pc = "yield_trace"
  /\ Yield(TraceLink)
  /\ pc' = "yield_starting"
  /\ UNCHANGED <<query, max_searches, raised, exc, search_plan, search_results,
                 report, tasks, done_order, num_completed, results, calls, rets,
                 writer_input, email_input, email_tool>>
  /\ UNCHANGED <<mvars, uvars>>

YieldStarting ==
  /\ pc = "yield_starting"
  /\ Yield(StartingMsg)
  /\ pc' = "plan_searches"
  /\ UNCHANGED <<query, max_searches, raised, exc, search_plan, search_results,
                 report, tasks, done_order, num_completed, results, calls, rets,
                 writer_input, email_input, email_tool>>
  /\ UNCHANGED <<mvars, uvars>>

\* variant of PlanSearches that calls the planner a second time when the
\* first call raised
PlanSearchesRetry ==
  /\ pc = "plan_searches"
  /\ \E o \in PlannerOutcomes :
       LET r == plan_searches(o) IN
       /\ calls' = [calls EXCEPT !["planner"] = IF r.raised THEN @ + 2 ELSE @ + 1]
       /\ IF r.raised
          THEN /\ exc' = r.err
               /\ pc' = "except"
               /\ UNCHANGED <<search_plan, rets>>
          ELSE /\ search_plan' = r.val
               /\ rets' = [rets EXCEPT !["plan_searches"] = @ + 1]
               /\ pc' = "yield_planned"
               /\ UNCHANGED exc
  /\ UNCHANGED <<query, max_searches, out, raised, search_results, report,
                 tasks, done_order, num_completed, results, writer_input,
                 email_input, email_tool>>
  /\ UNCHANGED <<mvars, uvars>>

\* Step 1: search_plan = await self.plan_searches(query)
PlanSearches ==
  /\ pc = "plan_searches"
  /\ \E o \in PlannerOutcomes :
       LET r == plan_searches(o) IN
       /\ calls' = [calls EXCEPT !["planner"] = @ + 1]
       /\ IF r.raised
          THEN /\ exc' = r.err
               /\ pc' = "except"
               /\ UNCHANGED <<search_plan, rets>>
          ELSE /\ search_plan' = r.val
               /\ rets' = [rets EXCEPT !["plan_searches"] = @ + 1]
               /\ pc' = "yield_planned"
               /\ UNCHANGED exc
  /\ UNCHANGED <<query, max_searches, out, raised, search_results, report,
                 tasks, done_order, num_completed, results, writer_input,
                 email_input, email_tool>>
  /\ UNCHANGED <<mvars, uvars>>

YieldPlanned ==
  /\ pc = "yield_planned"
  /\ Yield(PlannedMsg(Len(search_plan)))
  /\ pc' = "perform_searches"
  /\ UNCHANGED <<query, max_searches, raised, exc, search_plan, search_results,
                 report, tasks, done_order, num_completed, results, calls, rets,
                 writer_input, email_input, email_tool>>
  /\ UNCHANGED <<mvars, uvars>>

(* ---------------- perform_searches ---------------- *)

\* variant of PerformSearchesEmpty that falls back to one default search
\* when the plan is empty
PerformSearchesEmptyFallback ==
  /\ pc = "perform_searches"
  /\ search_plan = <<>>
  /\ num_completed' = 0
  /\ results' = <<>>
  /\ tasks' = CreateTasks(<<[query |-> "term1", reason |-> "why1"]>>)
  /\ pc' = "gather"
  /\ UNCHANGED <<query, max_searches, out, raised, exc, search_plan,
                 search_results, report, done_order, calls, rets,
                 writer_input, email_input, email_tool>>
  /\ UNCHANGED <<mvars, uvars>>

\* if not search_plan.searches: return []
PerformSearchesEmpty ==
  /\ pc = "perform_searches"
  /\ search_plan = <<>>
  /\ search_results' = <<>>
  /\ rets' = [rets EXCEPT !["perform_searches"] = @ + 1]
  /\ pc' = "yield_complete"
  /\ UNCHANGED <<query, max_searches, out, raised, exc, search_plan, report,
                 tasks, done_order, num_completed, results, calls,
                 writer_input, email_input, email_tool>>
  /\ UNCHANGED <<mvars, uvars>>

\* num_completed = 0; results = []; tasks = [create_task(...) ...]
PerformSearchesCreate ==
  /\ pc = "perform_searches"
  /\ search_plan # <<>>
  /\ num_completed' = 0
  /\ results' = <<>>
  /\ tasks' = CreateTasks(search_plan)
  /\ pc' = "gather"
  /\ UNCHANGED <<query, max_searches, out, raised, exc, search_plan,
                 search_results, report, done_order, calls, rets,
                 writer_input, email_input, email_tool>>
  /\ UNCHANGED <<mvars, uvars>>

\* the event loop starts task i (in creation order): search builds its input
\* and calls Runner.run(search_agent, input_text)
SearchStart(i) ==
  /\ tasks[i].st = "created"
  /\ \A j \in 1..(i - 1) : tasks[j].st # "created"
  /\ tasks' = [tasks EXCEPT ![i].st = "running",
                            ![i].input = SearchInput(tasks[i].item),
                            ![i].calls = @ + 1]
  /\ UNCHANGED <<query, max_searches, pc, out, raised, exc, search_plan,
                 search_results, report, done_order, num_completed, results,
                 calls, rets, writer_input, email_input, email_tool>>
  /\ UNCHANGED <<mvars, uvars>>

\* the agent run of task i ends (ok / final_output record how) and search
\* returns or raises (raised / result): the task is done
SearchFinish(i) ==
  /\ tasks[i].st = "running"
  /\ \E o \in SearchOutcomes :
       LET r == search(o) IN
       tasks' = [tasks EXCEPT ![i].st = "done",
                              ![i].ok = o.ok,
                              ![i].final_output = o.val,
                              ![i].raised = r.raised,
                              ![i].result = r.val]
  /\ done_order' = Append(done_order, i)
  /\ UNCHANGED <<query, max_searches, pc, out, raised, exc, search_plan,
                 search_results, report, num_completed, results,
                 calls, rets, writer_input, email_input, email_tool>>
  /\ UNCHANGED <<mvars, uvars>>

\* variant of Collect that walks the tasks in plan order and reads each
\* task's result without waiting for the task to finish
CollectNoWait ==
  /\ pc = "gather"
  /\ num_completed < Len(tasks)
  /\ LET t == tasks[num_completed + 1] IN
       results' = IF ~t.raised /\ t.result # PyNone
                  THEN Append(results, t.result)
                  ELSE results
  /\ num_completed' = num_completed + 1
  /\ UNCHANGED <<query, max_searches, pc, out, raised, exc, search_plan,
                 search_results, report, tasks, done_order,
                 calls, rets, writer_input, email_input, email_tool>>
  /\ UNCHANGED <<mvars, uvars>>

\* one iteration of "for task in asyncio.as_completed(tasks)": the next
\* finished task is awaited; an exception of the task is caught and logged
Collect ==
  /\ pc = "gather"
  /\ num_completed < Len(done_order)
  /\ LET t == tasks[done_order[num_completed + 1]] IN
       results' = IF ~t.raised /\ t.result # PyNone
                  THEN Append(results, t.result)
                  ELSE results
  /\ num_completed' = num_completed + 1
  /\ UNCHANGED <<query, max_searches, pc, out, raised, exc, search_plan,
                 search_results, report, tasks, done_order,
                 calls, rets, writer_input, email_input, email_tool>>
  /\ UNCHANGED <<mvars, uvars>>

\* variant of PerformSearchesReturn that returns as soon as one task has
\* been collected
PerformSearchesReturnEarly ==
  /\ pc = "gather"
  /\ num_completed >= 1
  /\ search_results' = results
  /\ rets' = [rets EXCEPT !["perform_searches"] = @ + 1]
  /\ pc' = "yield_complete"
  /\ UNCHANGED <<query, max_searches, out, raised, exc, search_plan, report,
                 tasks, done_order, num_completed, results, calls,
                 writer_input, email_input, email_tool>>
  /\ UNCHANGED <<mvars, uvars>>

\* the loop has consumed every task: return results
PerformSearchesReturn ==
  /\ pc = "gather"
  /\ num_completed = Len(tasks)
  /\ search_results' = results
  /\ rets' = [rets EXCEPT !["perform_searches"] = @ + 1]
  /\ pc' = "yield_complete"
  /\ UNCHANGED <<query, max_searches, out, raised, exc, search_plan, report,
                 tasks, done_order, num_completed, results, calls,
                 writer_input, email_input, email_tool>>
  /\ UNCHANGED <<mvars, uvars>>

\* variant of YieldComplete that reports the number of tasks instead of the
\* number of results
YieldCompleteCountsTasks ==
  /\ pc = "yield_complete"
  /\ Yield(CompleteMsg(Len(tasks)))
  /\ pc' = "write_report"
  /\ UNCHANGED <<query, max_searches, raised, exc, search_plan, search_results,
                 report, tasks, done_order, num_completed, results, calls, rets,
                 writer_input, email_input, email_tool>>
  /\ UNCHANGED <<mvars, uvars>>

YieldComplete ==
  /\ pc = "yield_complete"
  /\ Yield(CompleteMsg(Len(search_results)))
  /\ pc' = "write_report"
  /\ UNCHANGED <<query, max_searches, raised, exc, search_plan, search_results,
                 report, tasks, done_order, num_completed, results, calls, rets,
                 writer_input, email_input, email_tool>>
  /\ UNCHANGED <<mvars, uvars>>

(* ---------------- write_report, send_email ---------------- *)

\* Step 3: report = await self.write_report(query, search_results)
WriteReport ==
  /\ pc = "write_report"
  /\ writer_input' = WriterInput(query, search_results)
  /\ \E o \in WriterOutcomes :
       LET r == write_report(o) IN
       /\ calls' = [calls EXCEPT !["writer"] = @ + 1]
       /\ IF r.raised
          THEN /\ exc' = r.err
               /\ pc' = "except"
               /\ UNCHANGED <<report, rets>>
          ELSE /\ report' = r.val
               /\ rets' = [rets EXCEPT !["write_report"] = @ + 1]
               /\ pc' = "yield_written"
               /\ UNCHANGED exc
  /\ UNCHANGED <<query, max_searches, out, raised, search_plan, search_results,
                 tasks, done_order, num_completed, results,
                 email_input, email_tool>>
  /\ UNCHANGED <<mvars, uvars>>

YieldWritten ==
  /\ pc = "yield_written"
  /\ Yield(WrittenMsg)
  /\ pc' = "send_email"
  /\ UNCHANGED <<query, max_searches, raised, exc, search_plan, search_results,
                 report, tasks, done_order, num_completed, results, calls, rets,
                 writer_input, email_input, email_tool>>
  /\ UNCHANGED <<mvars, uvars>>

\* variant of SendEmail that mails the short summary instead of the body
SendEmailSummary ==
  /\ pc = "send_email"
  /\ email_input' = report.short_summary
  /\ \E o \in EmailOutcomes :
       LET r == send_email(o) IN
       /\ calls' = [calls EXCEPT !["email"] = @ + 1]
       /\ email_tool' = r.val
       /\ IF r.raised
          THEN /\ exc' = r.err
               /\ pc' = "except"
               /\ UNCHANGED rets
          ELSE /\ rets' = [rets EXCEPT !["send_email"] = @ + 1]
               /\ pc' = "yield_sent"
               /\ UNCHANGED exc
  /\ UNCHANGED <<query, max_searches, out, raised, search_plan, search_results,
                 report, tasks, done_order, num_completed, results,
                 writer_input>>
  /\ UNCHANGED <<mvars, uvars>>

\* Step 4: await self.send_email(report)
SendEmail ==
  /\ pc = "send_email"
  /\ email_input' = report.markdown_report
  /\ \E o \in EmailOutcomes :
       LET r == send_email(o) IN
       /\ calls' = [calls EXCEPT !["email"] = @ + 1]
       /\ email_tool' = r.val
       /\ IF r.raised
          THEN /\ exc' = r.err
               /\ pc' = "except"
               /\ UNCHANGED rets
          ELSE /\ rets' = [rets EXCEPT !["send_email"] = @ + 1]
               /\ pc' = "yield_sent"
               /\ UNCHANGED exc
  /\ UNCHANGED <<query, max_searches, out, raised, search_plan, search_results,
                 report, tasks, done_order, num_completed, results,
                 writer_input>>
  /\ UNCHANGED <<mvars, uvars>>

\* variant of YieldEmailSent that goes on without the notification
YieldEmailSentSkipped ==
  /\ pc = "yield_sent"
  /\ pc' = "yield_report"
  /\ UNCHANGED <<query, max_searches, out, raised, exc, search_plan,
                 search_results, report, tasks, done_order, num_completed,
                 results, calls, rets, writer_input, email_input, email_tool>>
  /\ UNCHANGED <<mvars, uvars>>

YieldEmailSent ==
  /\ pc = "yield_sent"
  /\ Yield(EmailSentMsg)
  /\ pc' = "yield_report"
  /\ UNCHANGED <<query, max_searches, raised, exc, search_plan, search_results,
                 report, tasks, done_order, num_completed, results, calls, rets,
                 writer_input, email_input, email_tool>>
  /\ UNCHANGED <<mvars, uvars>>

\* Step 5: yield report.markdown_report, then the generator ends
YieldReport ==
  /\ pc = "yield_report"
  /\ Yield(<<report.markdown_report>>)
  /\ pc' = "done"
  /\ UNCHANGED <<query, max_searches, raised, exc, search_plan, search_results,
                 report, tasks, done_order, num_completed, results, calls, rets,
                 writer_input, email_input, email_tool>>
  /\ UNCHANGED <<mvars, uvars>>

(* ---------------- except Exception as e ---------------- *)

\* yield the error notification from inside the except clause
YieldError ==
  /\ pc = "except"
  /\ Yield(ErrorMsg(exc))
  /\ pc' = "reraise"
  /\ UNCHANGED <<query, max_searches, raised, exc, search_plan, search_results,
                 report, tasks, done_order, num_completed, results, calls, rets,
                 writer_input, email_input, email_tool>>
  /\ UNCHANGED <<mvars, uvars>>

\* variant of Reraise without the "raise": the generator just ends
ReraiseSwallowed ==
  /\ pc = "reraise"
  /\ pc' = "done"
  /\ UNCHANGED <<query, max_searches, out, raised, exc, search_plan,
                 search_results, report, tasks, done_order, num_completed,
                 results, calls, rets, writer_input, email_input, email_tool>>
  /\ UNCHANGED <<mvars, uvars>>

\* raise: the caught exception leaves the generator
Reraise ==
  /\ pc = "reraise"
  /\ raised' = exc
  /\ pc' = "raised"
  /\ UNCHANGED <<query, max_searches, out, exc, search_plan, search_results,
                 report, tasks, done_order, num_completed, results, calls, rets,
                 writer_input, email_input, email_tool>>
  /\ UNCHANGED <<mvars, uvars>>

Next ==
  \/ YieldTrace
  \/ YieldStarting
  \/ PlanSearches
  \/ YieldPlanned
  \/ PerformSearchesEmpty
  \/ PerformSearchesCreate
  \/ \E i \in 1..Len(tasks) : SearchStart(i)
  \/ \E i \in 1..Len(tasks) : SearchFinish(i)
  \/ Collect
  \/ PerformSearchesReturn
  \/ YieldComplete
  \/ WriteReport
  \/ YieldWritten
  \/ SendEmail
  \/ YieldEmailSent
  \/ YieldReport
  \/ YieldError
  \/ Reraise

Spec == Init /\ [][Next]_vars

(* ======================= utils/helpers.py ======================= *)

(* Python strings handled character by character are sequences of          *)
(* one-character strings.                                                   *)

\* longest query / text drawn character by character
MaxStrLen == 4

\* longest email address drawn character by character (before its suffix)
MaxEmailLen == 6

\* largest max_length handed to chunk_text
MaxChunkLen == 3

\* sanitize_query: "if len(sanitized) > 500"
MaxQueryLen == 500

\* length of the long query of test_sanitize_query
LongQueryLen == 600

\* characters str.strip() removes
Whitespace == {" ", "\n", "\t"}

RECURSIVE LStrip(_)
LStrip(s) == IF s # <<>> /\ Head(s) \in Whitespace THEN LStrip(Tail(s)) ELSE s

RECURSIVE RStrip(_)
RStrip(s) ==
  IF s # <<>> /\ s[Len(s)] \in Whitespace THEN RStrip(SubSeq(s, 1, Len(s) - 1)) ELSE s

\* str.strip()
Strip(s) == RStrip(LStrip(s))

\* the character class [<>"'] of sanitize_query
Harmful == {"<", ">", "\"", "'"}

\* re.sub(r'[<>"\']', "", s)
RemoveHarmful(s) == SelectSeq(s, LAMBDA c : c \notin Harmful)

\* variant of sanitize_query without the length limit
sanitizeNoLimit(q) ==
  IF q = <<>> THEN <<>> ELSE RemoveHarmful(Strip(q))

sanitize_query(q) ==
  IF q = <<>> THEN <<>>
  ELSE LET sanitized == RemoveHarmful(Strip(q)) IN
       IF Len(sanitized) > MaxQueryLen
       THEN SubSeq(sanitized, 1, MaxQueryLen)
       ELSE sanitized

\* character classes of the pattern of validate_email
Letters == {"a", "b"}
Digits == {"1"}
LocalChars == Letters \cup Digits \cup {".", "_", "%", "+", "-"}
DomainChars == Letters \cup Digits \cup {".", "-"}

AllIn(s, S) == \A k \in 1..Len(s) : s[k] \in S

\* [a-zA-Z0-9._%+-]+@[a-zA-Z0-9.-]+\.[a-zA-Z]{2,} matches all of s
PatternMatchesAll(s) ==
  \E at \in 2..Len(s) : \E dot \in (at + 2)..(Len(s) - 2) :
     /\ s[at] = "@"
     /\ s[dot] = "."
     /\ AllIn(SubSeq(s, 1, at - 1), LocalChars)
     /\ AllIn(SubSeq(s, at + 1, dot - 1), DomainChars)
     /\ AllIn(SubSeq(s, dot + 1, Len(s)), Letters)

\* re.match(r"^...$", s): "$" matches at the end of the string and also just
\* before a newline that ends the string
ReMatch(s) ==
  \/ PatternMatchesAll(s)
  \/ /\ s # <<>>
     /\ s[Len(s)] = "\n"
     /\ PatternMatchesAll(SubSeq(s, 1, Len(s) - 1))

validate_email(email) ==
  IF email = <<>> THEN FALSE ELSE ReMatch(email)

RECURSIVE Split(_, _)
\* str.split(sep) for a one-character separator
Split(s, sep) ==
  IF \A k \in 1..Len(s) : s[k] # sep THEN <<s>>
  ELSE LET k == CHOOSE i \in 1..Len(s) :
                   s[i] = sep /\ \A j \in 1..(i - 1) : s[j] # sep
       IN <<SubSeq(s, 1, k - 1)>> \o Split(SubSeq(s, k + 1, Len(s)), sep)

RECURSIVE ChunkLoop(_, _, _, _)
\* the loop "for sentence in text.split('.')" of chunk_text and what follows it
ChunkLoop(sentences, max_length, chunks, current_chunk) ==
  IF sentences = <<>>
  THEN IF current_chunk # <<>> THEN Append(chunks, Strip(current_chunk)) ELSE chunks
  ELSE LET sentence == Head(sentences) IN
       IF Len(current_chunk \o sentence) <= max_length
       THEN ChunkLoop(Tail(sentences), max_length, chunks,
                      current_chunk \o sentence \o <<".">>)
       ELSE ChunkLoop(Tail(sentences), max_length,
                      IF current_chunk # <<>>
                      THEN Append(chunks, Strip(current_chunk)) ELSE chunks,
                      sentence \o <<".">>)

chunk_text(text, max_length) ==
  IF Len(text) <= max_length THEN <<text>>
  ELSE ChunkLoop(Split(text, "."), max_length, <<>>, <<>>)

(* ---------------- inputs of the utility functions ---------------- *)

\* n copies of the character c
Rep(c, n) == [i \in 1..n |-> c]

\* the queries of test_sanitize_query
NormalQuery == <<"n","o","r","m","a","l"," ","q","u","e","r","y">>
ScriptQuery == <<"q","u","e","r","y"," ","w","i","t","h"," ",
                 "<","s","c","r","i","p","t",">"," ","t","a","g","s">>

SanitizeInputs ==
  SeqsUpTo({"a", " ", "<", ">", "\""}, MaxStrLen)
    \cup {NormalQuery, ScriptQuery,
          Rep("a", LongQueryLen), Rep("a", MaxQueryLen), Rep("a", MaxQueryLen + 1),
          Rep("a", MaxQueryLen - 1) \o <<"<", "a", "b", ">">>}

EmailInputs ==
  {base \o suffix : base \in SeqsUpTo({"a", "1", "%", ".", "@"}, MaxEmailLen),
                    suffix \in {<<>>, <<"\n">>, <<" ">>}}

ChunkInputs ==
  {[text |-> t, max_length |-> n] :
      t \in SeqsUpTo({"a", ".", " "}, MaxStrLen), n \in 1..MaxChunkLen}

(* ======================= utils/config.py ======================= *)

\* os.getenv(key) of a variable that is not set (Python None)
Unset == "<unset>"

RequiredKeys == {"SENDGRID_API_KEY", "FROM_EMAIL", "TO_EMAIL", "OPENAI_API_KEY"}

\* strings int() accepts, among the values MAX_SEARCHES takes in the model
IntLiterals == {"5"}

\* the environments explored (after load_dotenv)
Envs ==
  {[k \in RequiredKeys \cup {"MAX_SEARCHES"} |->
       IF k = "MAX_SEARCHES" THEN ms ELSE req[k]] :
     req \in [RequiredKeys -> {Unset, "", "value"}],
     ms \in {Unset, "5", "abc", ""}}

\* variant of get_required_env_var that only rejects a variable that is unset
getRequiredAllowsEmpty(env, key) ==
  [raised |-> env[key] = Unset, val |-> env[key]]

\* value = os.getenv(key); if not value: raise ValueError(...)
get_required_env_var(env, key) ==
  [raised |-> env[key] \in {Unset, ""}, val |-> env[key]]

\* os.getenv(key, default)
get_optional_env_var(env, key, default) ==
  IF env[key] = Unset THEN default ELSE env[key]

\* get_config returns an AppConfig or raises; every exception it can raise
\* here (a missing required variable, int() of a malformed MAX_SEARCHES) is a
\* ValueError
get_config(env) ==
  IF \E k \in RequiredKeys : get_required_env_var(env, k).raised
  THEN [raised |-> TRUE, exc |-> "ValueError"]
  ELSE IF get_optional_env_var(env, "MAX_SEARCHES", "5") \notin IntLiterals
       THEN [raised |-> TRUE, exc |-> "ValueError"]
       ELSE [raised |-> FALSE, exc |-> NoExc]

\* try: get_config(); return True / except ValueError: return False
validate_config(env) ==
  LET r == get_config(env) IN
  IF ~r.raised THEN [raised |-> FALSE, val |-> TRUE]
  ELSE IF r.exc = "ValueError" THEN [raised |-> FALSE, val |-> FALSE]
       ELSE [raised |-> TRUE, val |-> FALSE]

(* ---------------- applying one function ---------------- *)

\* the research pipeline is not running
PipelineIdle ==
  /\ query = ""
  /\ max_searches = 5
  /\ pc = "idle"
  /\ out = <<>>
  /\ raised = NoExc
  /\ exc = NoExc
  /\ search_plan = NoPlan
  /\ search_results = <<>>
  /\ report = NoReport
  /\ tasks = <<>>
  /\ done_order = <<>>
  /\ num_completed = 0
  /\ results = <<>>
  /\ calls = [a \in Agents |-> 0]
  /\ rets = [m \in Methods |-> 0]
  /\ writer_input = <<>>
  /\ email_input = <<>>
  /\ email_tool = "not_called"

InitUtils ==
  /\ PipelineIdle
  /\ MainIdle
  /\ u_pc = "call"
  /\ u_out = <<>>
  /\ \/ u_fn = "sanitize_query" /\ u_in \in SanitizeInputs
     \/ u_fn = "validate_email" /\ u_in \in EmailInputs
     \/ u_fn = "chunk_text" /\ u_in \in ChunkInputs
     \/ u_fn = "run_research_app" /\ u_in \in Envs

ApplySanitizeQuery ==
  /\ u_fn = "sanitize_query"
  /\ u_pc = "call"
  /\ u_out' = sanitize_query(u_in)
  /\ u_pc' = "done"
  /\ UNCHANGED <<u_fn, u_in, pvars, mvars>>

ApplyValidateEmail ==
  /\ u_fn = "validate_email"
  /\ u_pc = "call"
  /\ u_out' = validate_email(u_in)
  /\ u_pc' = "done"
  /\ UNCHANGED <<u_fn, u_in, pvars, mvars>>

ApplyChunkText ==
  /\ u_fn = "chunk_text"
  /\ u_pc = "call"
  /\ u_out' = chunk_text(u_in.text, u_in.max_length)
  /\ u_pc' = "done"
  /\ UNCHANGED <<u_fn, u_in, pvars, mvars>>

\* run_research_app: "if not validate_config():"
AppValidateConfig ==
  /\ u_fn = "run_research_app"
  /\ u_pc = "call"
  /\ LET r == validate_config(u_in) IN
       /\ u_out' = [valid |-> r.val, raised |-> r.raised, ui |-> "not_built"]
       /\ u_pc' = IF r.raised THEN "raised" ELSE "validated"
  /\ UNCHANGED <<u_fn, u_in, pvars, mvars>>

\* logger.error("Invalid configuration. ..."); return
AppReturnInvalid ==
  /\ u_fn = "run_research_app"
  /\ u_pc = "validated"
  /\ ~u_out.valid
  /\ u_pc' = "done"
  /\ UNCHANGED <<u_fn, u_in, u_out, pvars, mvars>>

\* with gr.Blocks(...) as ui: ...; ui.launch(...)
AppLaunch ==
  /\ u_fn = "run_research_app"
  /\ u_pc = "validated"
  /\ u_out.valid
  /\ u_out' = [u_out EXCEPT !.ui = "launched"]
  /\ u_pc' = "done"
  /\ UNCHANGED <<u_fn, u_in, pvars, mvars>>

NextUtils ==
  \/ ApplySanitizeQuery
  \/ ApplyValidateEmail
  \/ ApplyChunkText
  \/ AppValidateConfig
  \/ AppReturnInvalid
  \/ AppLaunch

SpecUtils == InitUtils /\ [][NextUtils]_vars

(* ======================= main.py ======================= *)

(* run_research_with_status contains both "yield" and "return <value>".   *)
(* The value of a return statement of a generator is not an item of the   *)
(* stream: the consumer receives the yielded items only (CPython refuses   *)
(* to compile such a return in an async generator, so that nothing at all  *)
(* is delivered). m_ret records the value handed to "return".              *)

\* the empty string as an item
EmptyStr == <<"">>

\* what one ResearchManager.run yields and whether it ends by raising: the
\* trace link and 'Starting research...', then per stage its notification, or
\* the error notification and the exception when the stage raises
PipelineRuns ==
  {[items |-> <<TraceLink, StartingMsg, ErrorMsg(e)>>, raised |-> e] : e \in Errors}
  \cup UNION {
    LET head == <<TraceLink, StartingMsg, PlannedMsg(km[1]), CompleteMsg(km[2])>> IN
      {[items |-> Append(head, ErrorMsg(e)), raised |-> e] : e \in Errors}
      \cup {[items |-> head \o <<WrittenMsg, ErrorMsg(e)>>, raised |-> e] : e \in Errors}
      \cup {[items |-> head \o <<WrittenMsg, EmailSentMsg, <<r.markdown_report>>>>,
             raised |-> NoExc] : r \in Reports}
    : km \in {x \in (0..MaxPlanLen) \X (0..MaxPlanLen) : x[2] <= x[1]} }

\* queries typed by the user
MainQueries ==
  {<<>>, <<" ">>, <<" ", "\n">>, <<"<">>, <<"\"", ">">>, <<"a">>,
   <<" ", "a", ">">>, NormalQuery}

\* "not query or not query.strip()"
IsBlank(q) == q = <<>> \/ Strip(q) = <<>>

EnterQueryMsg == <<"Please enter a research query.">>
InvalidQueryMsg == <<"Invalid query. Please try again.">>
MainErrorMsg(e) == <<"An error occurred during research: ", e>>
ReportGeneratedMsg == <<"Report generated successfully!">>
EmailSuccessMsg == <<"Email sent successfully!">>

\* chunk.startswith("View trace:")
StartsWithViewTrace(chunk) == chunk[1] = TraceLink[1]

\* texts of the model that contain one of the phrases "Starting research...",
\* "Searches planned", "Searches complete", "Report written", "Email sent",
\* "research complete"
PhraseTexts ==
  {"Starting research...", "Searches planned (", "Searches complete (",
   "Report written, sending email...", "Email sent, research complete"}

\* any(status in chunk for status in [...])
ContainsStatusPhrase(chunk) ==
  \E k \in (IF Len(chunk) = 3 THEN {1, 3} ELSE 1..Len(chunk)) :
     chunk[k] \in PhraseTexts

\* the status line the first loop of run_research_with_status keeps for a chunk
StatusLine(chunk) ==
  IF StartsWithViewTrace(chunk) THEN chunk
  ELSE IF chunk = WrittenMsg THEN ReportGeneratedMsg
  ELSE IF chunk = EmailSentMsg THEN EmailSuccessMsg
  ELSE chunk

InitMain ==
  /\ PipelineIdle
  /\ UtilIdle
  /\ m_fn \in {"run", "run_research_with_status"}
  /\ m_query \in MainQueries
  /\ m_pc = "validate"
  /\ m_run = [items |-> <<>>, raised |-> NoExc]
  /\ m_pos = 0
  /\ m_out = <<>>
  /\ m_raised = NoExc
  /\ m_ret = <<>>
  /\ m_starts = 0
  /\ status_messages = <<>>
  /\ final_report = EmptyStr

(* ---------------- main.run ---------------- *)

\* if not query or not query.strip(): yield "Please enter ..."; return
RunRejectBlank ==
  /\ m_fn = "run"
  /\ m_pc = "validate"
  /\ IsBlank(m_query)
  /\ m_out' = Append(m_out, EnterQueryMsg)
  /\ m_pc' = "done"
  /\ UNCHANGED <<m_fn, m_query, m_run, m_pos, m_raised, m_ret, m_starts,
                 status_messages, final_report, pvars, uvars>>

\* if not sanitized_query: yield "Invalid query. ..."; return
RunRejectInvalid ==
  /\ m_fn = "run"
  /\ m_pc = "validate"
  /\ ~IsBlank(m_query)
  /\ sanitize_query(m_query) = <<>>
  /\ m_out' = Append(m_out, InvalidQueryMsg)
  /\ m_pc' = "done"
  /\ UNCHANGED <<m_fn, m_query, m_run, m_pos, m_raised, m_ret, m_starts,
                 status_messages, final_report, pvars, uvars>>

\* async for chunk in ResearchManager().run(sanitized_query): the generator
\* is created
RunStart ==
  /\ m_fn = "run"
  /\ m_pc = "validate"
  /\ ~IsBlank(m_query)
  /\ sanitize_query(m_query) # <<>>
  /\ m_run' \in PipelineRuns
  /\ m_pos' = 0
  /\ m_starts' = m_starts + 1
  /\ m_pc' = "relay"
  /\ UNCHANGED <<m_fn, m_query, m_out, m_raised, m_ret,
                 status_messages, final_report, pvars, uvars>>

\* yield chunk
RunRelay ==
  /\ m_fn = "run"
  /\ m_pc = "relay"
  /\ m_pos < Len(m_run.items)
  /\ m_out' = Append(m_out, m_run.items[m_pos + 1])
  /\ m_pos' = m_pos + 1
  /\ UNCHANGED <<m_fn, m_query, m_pc, m_run, m_raised, m_ret, m_starts,
                 status_messages, final_report, pvars, uvars>>

\* variant of RunEnd without the except clause: the exception of the pipeline
\* leaves main.run
RunEndPropagates ==
  /\ m_fn = "run"
  /\ m_pc = "relay"
  /\ m_pos = Len(m_run.items)
  /\ m_raised' = m_run.raised
  /\ m_pc' = "done"
  /\ UNCHANGED <<m_fn, m_query, m_run, m_pos, m_out, m_ret, m_starts,
                 status_messages, final_report, pvars, uvars>>

\* the pipeline generator ends: normally, or by an exception that the except
\* clause turns into a last item
RunEnd ==
  /\ m_fn = "run"
  /\ m_pc = "relay"
  /\ m_pos = Len(m_run.items)
  /\ m_out' = IF m_run.raised # NoExc
              THEN Append(m_out, MainErrorMsg(m_run.raised))
              ELSE m_out
  /\ m_pc' = "done"
  /\ UNCHANGED <<m_fn, m_query, m_run, m_pos, m_raised, m_ret, m_starts,
                 status_messages, final_report, pvars, uvars>>

(* ---------------- main.run_research_with_status ---------------- *)

\* if not query or not query.strip(): return "Please enter ...", ""
StatusRejectBlank ==
  /\ m_fn = "run_research_with_status"
  /\ m_pc = "validate"
  /\ IsBlank(m_query)
  /\ m_ret' = <<<<EnterQueryMsg>>, EmptyStr>>
  /\ m_pc' = "done"
  /\ UNCHANGED <<m_fn, m_query, m_run, m_pos, m_out, m_raised, m_starts,
                 status_messages, final_report, pvars, uvars>>

\* if not sanitized_query: return "Invalid query. ...", ""
StatusRejectInvalid ==
  /\ m_fn = "run_research_with_status"
  /\ m_pc = "validate"
  /\ ~IsBlank(m_query)
  /\ sanitize_query(m_query) = <<>>
  /\ m_ret' = <<<<InvalidQueryMsg>>, EmptyStr>>
  /\ m_pc' = "done"
  /\ UNCHANGED <<m_fn, m_query, m_run, m_pos, m_out, m_raised, m_starts,
                 status_messages, final_report, pvars, uvars>>

\* status_messages = []; final_report = ""; the first ResearchManager().run
StatusStart ==
  /\ m_fn = "run_research_with_status"
  /\ m_pc = "validate"
  /\ ~IsBlank(m_query)
  /\ sanitize_query(m_query) # <<>>
  /\ status_messages' = <<>>
  /\ final_report' = EmptyStr
  /\ m_run' \in PipelineRuns
  /\ m_pos' = 0
  /\ m_starts' = m_starts + 1
  /\ m_pc' = "loop1"
  /\ UNCHANGED <<m_fn, m_query, m_out, m_raised, m_ret, pvars, uvars>>

\* first loop: append the status line, yield (status, final_report)
StatusStep ==
  /\ m_fn = "run_research_with_status"
  /\ m_pc = "loop1"
  /\ m_pos < Len(m_run.items)
  /\ status_messages' = Append(status_messages, StatusLine(m_run.items[m_pos + 1]))
  /\ m_out' = Append(m_out, [status |-> status_messages', report |-> final_report])
  /\ m_pos' = m_pos + 1
  /\ UNCHANGED <<m_fn, m_query, m_pc, m_run, m_raised, m_ret, m_starts,
                 final_report, pvars, uvars>>

\* the pipeline generator ended by raising: except ...: return error_msg, ""
StatusFail ==
  /\ m_fn = "run_research_with_status"
  /\ m_pc \in {"loop1", "loop2"}
  /\ m_pos = Len(m_run.items)
  /\ m_run.raised # NoExc
  /\ m_ret' = <<<<MainErrorMsg(m_run.raised)>>, EmptyStr>>
  /\ m_pc' = "done"
  /\ UNCHANGED <<m_fn, m_query, m_run, m_pos, m_out, m_raised, m_starts,
                 status_messages, final_report, pvars, uvars>>

\* the first loop is over: a second ResearchManager().run is started
StatusStartSecond ==
  /\ m_fn = "run_research_with_status"
  /\ m_pc = "loop1"
  /\ m_pos = Len(m_run.items)
  /\ m_run.raised = NoExc
  /\ m_run' \in PipelineRuns
  /\ m_pos' = 0
  /\ m_starts' = m_starts + 1
  /\ m_pc' = "loop2"
  /\ UNCHANGED <<m_fn, m_query, m_out, m_raised, m_ret,
                 status_messages, final_report, pvars, uvars>>

\* second loop: the first chunk that is neither a trace link nor contains a
\* status phrase becomes final_report (break)
StatusPick ==
  /\ m_fn = "run_research_with_status"
  /\ m_pc = "loop2"
  /\ m_pos < Len(m_run.items)
  /\ LET chunk == m_run.items[m_pos + 1] IN
       IF ~StartsWithViewTrace(chunk) /\ ~ContainsStatusPhrase(chunk)
       THEN final_report' = chunk /\ m_pc' = "return" /\ m_pos' = m_pos
       ELSE m_pos' = m_pos + 1 /\ UNCHANGED <<final_report, m_pc>>
  /\ UNCHANGED <<m_fn, m_query, m_run, m_out, m_raised, m_ret, m_starts,
                 status_messages, pvars, uvars>>

\* the second loop ran to the end of the generator without a break
StatusSecondExhausted ==
  /\ m_fn = "run_research_with_status"
  /\ m_pc = "loop2"
  /\ m_pos = Len(m_run.items)
  /\ m_run.raised = NoExc
  /\ m_pc' = "return"
  /\ UNCHANGED <<m_fn, m_query, m_run, m_pos, m_out, m_raised, m_ret, m_starts,
                 status_messages, final_report, pvars, uvars>>

\* return "\n".join(status_messages), final_report
StatusReturn ==
  /\ m_fn = "run_research_with_status"
  /\ m_pc = "return"
  /\ m_ret' = <<status_messages, final_report>>
  /\ m_pc' = "done"
  /\ UNCHANGED <<m_fn, m_query, m_run, m_pos, m_out, m_raised, m_starts,
                 status_messages, final_report, pvars, uvars>>

NextMain ==
  \/ RunRejectBlank
  \/ RunRejectInvalid
  \/ RunStart
  \/ RunRelay
  \/ RunEnd
  \/ StatusRejectBlank
  \/ StatusRejectInvalid
  \/ StatusStart
  \/ StatusStep
  \/ StatusFail
  \/ StatusStartSecond
  \/ StatusPick
  \/ StatusSecondExhausted
  \/ StatusReturn

SpecMain == InitMain /\ [][NextMain]_vars

(* ======================= properties ======================= *)

\* number of positions of seq that hold v
Count(seq, v) == Cardinality({k \in 1..Len(seq) : seq[k] = v})

\* the tasks whose agent run succeeded
Succeeded == {i \in 1..Len(tasks) : tasks[i].st = "done" /\ tasks[i].ok}

AllTasksDone == \A i \in 1..Len(tasks) : tasks[i].st = "done"

\* strings a successful search can return
SearchStrings == {Str(v) : v \in SearchFinalOutputs}

\* C1: the four stages run strictly in the order plan, search, write report,
\* send email: a search task exists only once plan_searches has returned,
\* the writer is called only once every search task of the plan has completed,
\* and the email agent is called only once write_report has returned a report.
C1_StageOrder ==
  /\ tasks # <<>> => rets["plan_searches"] = 1
  /\ calls["writer"] > 0 =>
       /\ rets["plan_searches"] = 1
       /\ rets["perform_searches"] = 1
       /\ Len(tasks) = Len(search_plan)
       /\ AllTasksDone
  /\ calls["email"] > 0 =>
       /\ calls["writer"] = 1
       /\ rets["write_report"] = 1
       /\ report \in Reports

\* a run that went through all four stages with at least two searches
C1_Witness ==
  /\ pc = "done"
  /\ Len(tasks) >= 2
  /\ calls["email"] = 1

\* C2: for a plan of N >= 1 items perform_searches creates exactly N tasks,
\* task i for item i; search is invoked at most once per task and exactly once
\* by the time perform_searches returns; no result is awaited before all N
\* tasks exist.
C2_OneTaskPerItem ==
  ((pc = "gather" \/ rets["perform_searches"] = 1) /\ Len(search_plan) >= 1) =>
     /\ Len(tasks) = Len(search_plan)
     /\ \A i \in 1..Len(tasks) :
          /\ tasks[i].item = search_plan[i]
          /\ tasks[i].calls <= 1
          /\ tasks[i].st # "created" => tasks[i].calls = 1
     /\ (num_completed > 0 \/ done_order # <<>>) => Len(tasks) = Len(search_plan)
     /\ rets["perform_searches"] = 1 => \A i \in 1..Len(tasks) : tasks[i].calls = 1

\* all N >= 2 searches of a plan are in flight at the same time
C2_Witness ==
  /\ pc = "gather"
  /\ Len(tasks) >= 2
  /\ Len(tasks) = Len(search_plan)
  /\ \A i \in 1..Len(tasks) : tasks[i].st = "running"

\* C3: perform_searches returns only when all tasks are done, and the list it
\* returns holds each output of a successful search exactly as often as
\* successful searches produced it and nothing else; N successes give N results.
C3_GatherAll ==
  (rets["perform_searches"] = 1) =>
     /\ AllTasksDone
     /\ num_completed = Len(tasks)
     /\ \A v \in SearchStrings :
          Count(search_results, v) =
            Cardinality({i \in Succeeded : Str(tasks[i].final_output) = v})
     /\ \A k \in 1..Len(search_results) : search_results[k] \in SearchStrings
     /\ Cardinality(Succeeded) = Len(tasks) => Len(search_results) = Len(tasks)

\* perform_searches has returned the outputs of two searches that finished in
\* the reverse of plan order while another search failed
C3_Witness ==
  /\ rets["perform_searches"] = 1
  /\ Len(tasks) >= 3
  /\ Len(done_order) >= 2
  /\ done_order[1] > done_order[2]
  /\ Cardinality(Succeeded) = Len(tasks) - 1
  /\ Len(search_results) = Len(tasks) - 1

\* C4: the number of search tasks started never exceeds max_searches,
\* whatever plan the planner returned.
C4_BoundedFanOut == Len(tasks) <= max_searches

\* C5: failing searches never make perform_searches raise: an exception is
\* caught by run only in another stage, the returned list holds one entry per
\* successful search and each successful output, and once perform_searches has
\* returned the run stands before the write-report stage, which then receives
\* that list (empty if every search failed).
C5_SearchFailuresContained ==
  /\ pc = "gather" => exc = NoExc
  /\ (exc # NoExc /\ rets["plan_searches"] = 1) => rets["perform_searches"] = 1
  /\ rets["perform_searches"] = 1 =>
       /\ Len(search_results) = Cardinality(Succeeded)
       /\ \A i \in Succeeded :
            \E k \in 1..Len(search_results) :
               search_results[k] = Str(tasks[i].final_output)
       /\ Succeeded = {} => search_results = <<>>
  /\ (rets["perform_searches"] = 1 /\ calls["writer"] = 0) =>
       pc \in {"yield_complete", "write_report"}
  /\ calls["writer"] = 1 => writer_input.search_results = search_results

\* the writer has been called with an empty list after every one of at least
\* two searches failed
C5_Witness ==
  /\ calls["writer"] = 1
  /\ Len(tasks) >= 2
  /\ \A i \in 1..Len(tasks) : tasks[i].st = "done" /\ ~tasks[i].ok
  /\ writer_input.search_results = <<>>

\* C6: search never raises: a finished search task holds the agent's output
\* converted with str() when the agent run succeeded and None when it raised.
C6_SearchNeverRaises ==
  \A i \in 1..Len(tasks) :
     tasks[i].st = "done" =>
        /\ ~tasks[i].raised
        /\ tasks[i].ok => /\ tasks[i].result = Str(tasks[i].final_output)
                          /\ tasks[i].result # PyNone
        /\ ~tasks[i].ok => tasks[i].result = PyNone

\* one search returned None after its agent run raised, another returned the
\* string "None" for an agent output of None
C6_Witness ==
  \E i, j \in 1..Len(tasks) :
     /\ tasks[i].st = "done" /\ ~tasks[i].ok /\ tasks[i].result = PyNone
     /\ tasks[j].st = "done" /\ tasks[j].ok /\ tasks[j].final_output = PyNone
     /\ tasks[j].result = "None"

\* C7: for a plan without items perform_searches creates no task, so no
\* search agent run happens, and it returns the empty list.
C7_EmptyPlan ==
  (rets["plan_searches"] = 1 /\ search_plan = <<>>) =>
     /\ tasks = <<>>
     /\ done_order = <<>>
     /\ num_completed = 0
     /\ rets["perform_searches"] = 1 => search_results = <<>>

\* perform_searches has returned for an empty plan
C7_Witness ==
  /\ rets["plan_searches"] = 1
  /\ search_plan = <<>>
  /\ rets["perform_searches"] = 1
  /\ pc = "yield_complete"

\* what a run without a failing stage yields, in order
FullOutput ==
  <<TraceLink, StartingMsg, PlannedMsg(Len(search_plan)),
    CompleteMsg(Len(search_results)), WrittenMsg, EmailSentMsg,
    <<report.markdown_report>>>>

\* C8: a run in which no stage raises yields exactly the trace link,
\* 'Starting research...', 'Searches planned', 'Searches complete', 'Report
\* written', 'Email sent' and the markdown body, in this order, and the
\* notification of a stage is yielded only after the stage has returned.
C8_NotificationOrder ==
  /\ pc = "done" => out = FullOutput
  /\ exc = NoExc =>
       /\ Len(out) <= Len(FullOutput)
       /\ out = SubSeq(FullOutput, 1, Len(out))
       /\ Len(out) >= 3 => rets["plan_searches"] = 1
       /\ Len(out) >= 4 => rets["perform_searches"] = 1
       /\ Len(out) >= 5 => rets["write_report"] = 1
       /\ Len(out) >= 6 => rets["send_email"] = 1

\* a run has ended normally after three successful searches and a delivered
\* email
C8_Witness ==
  /\ pc = "done"
  /\ Len(out) = 7
  /\ Cardinality(Succeeded) >= 3
  /\ email_tool = "success"

\* C9: each stage consumes the previous stage's output: task i searches item
\* i of the plan, the writer receives the query and the list perform_searches
\* returned, the email agent receives the markdown body of the report, and
\* the last item yielded is that markdown body.
C9_DataFlow ==
  /\ \A i \in 1..Len(tasks) :
       /\ i <= Len(search_plan)
       /\ tasks[i].item = search_plan[i]
       /\ tasks[i].st # "created" =>
            tasks[i].input = <<"Search term: ", search_plan[i].query,
                               "Reason for searching: ", search_plan[i].reason>>
  /\ rets["perform_searches"] = 1 => Len(tasks) = Len(search_plan)
  /\ calls["writer"] = 1 =>
       /\ writer_input.query = query
       /\ writer_input.search_results = search_results
  /\ calls["email"] = 1 => email_input = report.markdown_report
  /\ pc = "done" => out[Len(out)] = <<report.markdown_report>>

\* a finished run whose plan had two different items and whose report body
\* is the test report
C9_Witness ==
  /\ pc = "done"
  /\ Len(search_plan) >= 2
  /\ search_plan[1] # search_plan[2]
  /\ Len(search_results) >= 1
  /\ email_input = "# Test Report"

\* what run has yielded when it catches the exception of a stage
ErrorPrefix ==
  IF rets["plan_searches"] = 0 THEN <<TraceLink, StartingMsg>>
  ELSE IF rets["write_report"] = 0
       THEN <<TraceLink, StartingMsg, PlannedMsg(Len(search_plan)),
              CompleteMsg(Len(search_results))>>
       ELSE <<TraceLink, StartingMsg, PlannedMsg(Len(search_plan)),
              CompleteMsg(Len(search_results)), WrittenMsg>>

\* C10: when plan_searches, write_report or send_email raises, run yields
\* exactly one error notification after the notifications of the stages that
\* had finished, then re-raises that exception; no later stage is invoked and
\* neither 'Email sent, research complete' nor the report is yielded.
C10_ErrorPath ==
  /\ exc # NoExc => pc \in {"except", "reraise", "raised"}
  /\ pc = "except" => out = ErrorPrefix
  /\ pc \in {"reraise", "raised"} => out = Append(ErrorPrefix, ErrorMsg(exc))
  /\ pc = "raised" => raised = exc /\ raised \in Errors
  /\ pc # "raised" => raised = NoExc
  /\ exc # NoExc =>
       /\ rets["plan_searches"] = 0 =>
            tasks = <<>> /\ calls["writer"] = 0 /\ calls["email"] = 0
       /\ rets["write_report"] = 0 => calls["email"] = 0
       /\ rets["send_email"] = 0
       /\ \A k \in 1..Len(out) : out[k] # EmailSentMsg

\* the exception of the writer agent has been re-raised after two searches
C10_Witness ==
  /\ pc = "raised"
  /\ rets["perform_searches"] = 1
  /\ Len(tasks) >= 2
  /\ rets["write_report"] = 0
  /\ calls["writer"] = 1
  /\ Len(out) = 5

\* C11: 'Email sent, research complete' is yielded, and send_email returns
\* normally, only when the delivery made by the send_email tool succeeded.
C11_EmailSentOnlyIfDelivered ==
  /\ rets["send_email"] = 1 => email_tool = "success"
  /\ (Len(out) >= 6 /\ out[6] = EmailSentMsg) => email_tool = "success"

\* C15: each of plan_searches, write_report and send_email calls Runner.run
\* exactly once per call, whether the call returns or raises, and a run that
\* ends normally has made exactly one planner, one writer and one email call.
C15_OneCallPerStage ==
  /\ \A a \in Agents : calls[a] <= 1
  /\ \A m \in Methods : rets[m] <= 1
  /\ pc \notin {"yield_trace", "yield_starting", "plan_searches"} =>
       calls["planner"] = 1
  /\ (rets["perform_searches"] = 1
        /\ pc \notin {"yield_complete", "write_report"}) => calls["writer"] = 1
  /\ (rets["write_report"] = 1
        /\ pc \notin {"yield_written", "send_email"}) => calls["email"] = 1
  /\ pc = "done" => \A a \in Agents : calls[a] = 1

\* the three agents have been called once each and the email call raised
C15_Witness ==
  /\ pc = "raised"
  /\ rets["write_report"] = 1
  /\ rets["send_email"] = 0
  /\ \A a \in Agents : calls[a] = 1

SanitizeDone == u_fn = "sanitize_query" /\ u_pc = "done"

\* C16: sanitize_query returns at most 500 characters, none of them one of
\* < > " ', returns the empty string for the empty input, and returns an input
\* unchanged that has no such character, no surrounding whitespace and at
\* most 500 characters.
C16_SanitizeQuery ==
  SanitizeDone =>
     /\ Len(u_out) <= 500
     /\ \A k \in 1..Len(u_out) : u_out[k] \notin {"<", ">", "\"", "'"}
     /\ u_in = <<>> => u_out = <<>>
     /\ ( /\ \A k \in 1..Len(u_in) : u_in[k] \notin {"<", ">", "\"", "'"}
          /\ u_in # <<>> => (u_in[1] \notin Whitespace /\ u_in[Len(u_in)] \notin Whitespace)
          /\ Len(u_in) <= 500 ) => u_out = u_in

\* a query of more than 500 characters with a bracket beyond the limit has
\* been cut to 500 characters
C16_Witness ==
  /\ SanitizeDone
  /\ Len(u_in) > 500
  /\ \E k \in 1..Len(u_in) : u_in[k] = "<"
  /\ Len(u_out) = 500

RECURSIVE RemoveTags(_)
\* s without its substrings of the form '<' ... '>' (each from a '<' to the
\* first '>' after it)
RemoveTags(s) ==
  IF s = <<>> THEN <<>>
  ELSE IF Head(s) = "<" /\ \E k \in 2..Len(s) : s[k] = ">"
       THEN LET k == CHOOSE i \in 2..Len(s) :
                        s[i] = ">" /\ \A j \in 2..(i - 1) : s[j] # ">"
            IN RemoveTags(SubSeq(s, k + 1, Len(s)))
       ELSE <<Head(s)>> \o RemoveTags(Tail(s))

\* C17: sanitize_query deletes every '<' ... '>' tag together with the text
\* it encloses: the result is the result for the query without its tags.
C17_TagsRemoved ==
  SanitizeDone => u_out = sanitize_query(RemoveTags(u_in))

\* the shape of an address: one '@', a non-empty local part, and after the
\* '@' a non-empty domain, a dot and a last label of two or more letters
IsEmailShape(s) ==
  /\ Cardinality({k \in 1..Len(s) : s[k] = "@"}) = 1
  /\ LET at == CHOOSE k \in 1..Len(s) : s[k] = "@"
         dots == {k \in (at + 1)..Len(s) : s[k] = "."}
     IN /\ at > 1
        /\ AllIn(SubSeq(s, 1, at - 1), LocalChars)
        /\ dots # {}
        /\ LET dot == CHOOSE k \in dots : \A j \in dots : j <= k
           IN /\ dot > at + 1
              /\ AllIn(SubSeq(s, at + 1, dot - 1), DomainChars)
              /\ Len(s) - dot >= 2
              /\ AllIn(SubSeq(s, dot + 1, Len(s)), Letters)

\* C18: validate_email returns True exactly for the strings of the address
\* shape, with nothing before or after, and False for the empty string, a
\* string without '@' and a string with an empty local part.
C18_ValidateEmail ==
  (u_fn = "validate_email" /\ u_pc = "done") =>
     /\ u_out = IsEmailShape(u_in)
     /\ u_in = <<>> => u_out = FALSE
     /\ (\A k \in 1..Len(u_in) : u_in[k] # "@") => u_out = FALSE
     /\ (u_in # <<>> /\ u_in[1] = "@") => u_out = FALSE

AppValidated == u_fn = "run_research_app" /\ u_pc \in {"validated", "done"}

\* C19 as stated: validate_config never raises and returns False exactly when
\* a required variable is unset or empty; run_research_app then returns
\* without building the UI.
C19_ValidateConfigOriginal ==
  /\ u_fn = "run_research_app" => u_pc # "raised"
  /\ AppValidated =>
       /\ ~u_out.valid <=> \E k \in RequiredKeys : u_in[k] \in {Unset, ""}
       /\ ~u_out.valid => u_out.ui = "not_built"

\* C19 (amended): validate_config never raises and returns False exactly when
\* a required variable is unset or empty or MAX_SEARCHES is set to a value
\* int() rejects; run_research_app then returns without building the UI.
C19_ValidateConfig ==
  /\ u_fn = "run_research_app" => u_pc # "raised"
  /\ AppValidated =>
       /\ ~u_out.valid <=>
            \/ \E k \in RequiredKeys : u_in[k] \in {Unset, ""}
            \/ u_in["MAX_SEARCHES"] \in {"abc", ""}
       /\ ~u_out.valid => u_out.ui = "not_built"

\* run_research_app has returned without a UI because FROM_EMAIL is empty
C19_Witness ==
  /\ u_fn = "run_research_app"
  /\ u_pc = "done"
  /\ u_in["FROM_EMAIL"] = ""
  /\ \A k \in RequiredKeys \ {"FROM_EMAIL"} : u_in[k] = "value"
  /\ u_in["MAX_SEARCHES"] = "5"
  /\ ~u_out.valid
  /\ u_out.ui = "not_built"

\* C20: every chunk chunk_text returns has at most max_length characters.
C20_ChunkLength ==
  (u_fn = "chunk_text" /\ u_pc = "done") =>
     \A k \in 1..Len(u_out) : Len(u_out[k]) <= u_in.max_length


\* every finished run of the pipeline is one of PipelineRuns
RunSummarised ==
  pc \in {"done", "raised"} => [items |-> out, raised |-> raised] \in PipelineRuns

\* the markdown bodies a writer can produce, as items
MarkdownBodies == {<<r.markdown_report>> : r \in Reports}

\* run_research_with_status is over after two pipeline runs that both succeeded
StatusSucceeded ==
  /\ m_fn = "run_research_with_status"
  /\ m_pc = "done"
  /\ m_starts = 2
  /\ m_run.raised = NoExc

\* C12: for a valid query whose pipeline succeeds, run_research_with_status
\* delivers to its caller an output whose final_report component is the
\* markdown body of the report: the report output does not stay empty for the
\* whole request.
C12_FinalReportDelivered ==
  StatusSucceeded =>
    \E k \in 1..Len(m_out) : m_out[k].report \in MarkdownBodies

\* the query is rejected by the validation of main.py
Rejected == IsBlank(m_query) \/ sanitize_query(m_query) = <<>>

\* the message the validation of main.py has for a rejected query
RejectMsg == IF IsBlank(m_query) THEN EnterQueryMsg ELSE InvalidQueryMsg

\* C13: validation precedes the pipeline: for a blank query main.run and
\* run_research_with_status deliver only 'Please enter a research query.',
\* for a query that sanitises to the empty string only 'Invalid query. Please
\* try again.', and ResearchManager.run is never started.
C13_ValidationFirst ==
  (m_pc = "done" /\ Rejected) =>
    /\ m_starts = 0
    /\ IF m_fn = "run"
       THEN m_out = <<RejectMsg>>
       ELSE m_out = <<[status |-> <<RejectMsg>>, report |-> EmptyStr]>>

\* C14: main.run never raises to its consumer: it relays the items of
\* ResearchManager.run unchanged and in order, and when the pipeline raises the
\* stream ends with a single 'An error occurred during research: ...' item.
C14_MainRunRelays ==
  m_fn = "run" =>
    /\ m_raised = NoExc
    /\ m_pc = "relay" => m_out = SubSeq(m_run.items, 1, m_pos)
    /\ (m_pc = "done" /\ m_starts = 1) =>
         m_out = m_run.items \o (IF m_run.raised # NoExc
                                 THEN <<MainErrorMsg(m_run.raised)>>
                                 ELSE <<>>)

\* main.run is over after a pipeline run that raised in send_email, with all
\* six items of the pipeline relayed and the error item after them
C14_Witness ==
  /\ m_fn = "run"
  /\ m_pc = "done"
  /\ m_run.raised # NoExc
  /\ Len(m_run.items) = 6
  /\ Len(m_out) = 7
  /\ m_out[7] = MainErrorMsg(m_run.raised)

\* the results of the successful tasks among order, in that order
RECURSIVE CompletionResults(_)
CompletionResults(order) ==
  IF order = <<>> THEN <<>>
  ELSE LET t == tasks[order[1]] IN
       (IF t.ok THEN <<Str(t.final_output)>> ELSE <<>>)
       \o CompletionResults(Tail(order))

\* C21: perform_searches collects results as the tasks complete: in every
\* interleaving the list it builds and returns is in the order in which the
\* successful search tasks finished, not in the order of the plan.
C21_CompletionOrder ==
  /\ pc = "gather" =>
       /\ num_completed <= Len(done_order)
       /\ results = CompletionResults(SubSeq(done_order, 1, num_completed))
  /\ rets["perform_searches"] = 1 =>
       /\ Len(done_order) = Len(tasks)
       /\ search_results = CompletionResults(done_order)

\* perform_searches has returned two different outputs in the order in which
\* their tasks finished, which is the reverse of the plan order
C21_Witness ==
  /\ rets["perform_searches"] = 1
  /\ Len(tasks) = 2
  /\ done_order = <<2, 1>>
  /\ tasks[1].ok /\ tasks[2].ok
  /\ tasks[1].final_output # tasks[2].final_output
  /\ search_results = <<Str(tasks[2].final_output), Str(tasks[1].final_output)>>

\* C22: the counts of the progress notifications are consistent: the number in
\* 'Searches planned (k searches)' is the number of items of the plan, the
\* number in 'Searches complete (m results)' is the number of searches that
\* succeeded, and 0 <= m <= k.
C22_CountsConsistent ==
  \A j \in 1..Len(out) :
     /\ out[j][1] = PlannedMsg(0)[1] =>
          /\ rets["plan_searches"] = 1
          /\ out[j] = PlannedMsg(Len(search_plan))
     /\ out[j][1] = CompleteMsg(0)[1] =>
          /\ AllTasksDone
          /\ out[j] = CompleteMsg(Cardinality(Succeeded))
          /\ 0 <= out[j][2]
          /\ out[j][2] <= Len(search_plan)
          /\ \E i \in 1..(j - 1) :
                out[i] = PlannedMsg(Len(search_plan)) /\ out[j][2] <= out[i][2]

\* a run has reported three planned searches and one result
C22_Witness ==
  /\ Len(search_plan) = 3
  /\ Cardinality(Succeeded) = 1
  /\ \E i, j \in 1..Len(out) :
        i < j /\ out[i] = PlannedMsg(3) /\ out[j] = CompleteMsg(1)

\* the second loop of run_research_with_status is over
StatusSelected == m_fn = "run_research_with_status" /\ m_pc = "return"

\* C23: the value run_research_with_status selects as the final report is the
\* markdown body produced by the writer stage, whatever text it contains; a
\* trace link, a progress notification or an error notification is never
\* selected (a run without a report selects nothing).
C23_FinalReportIsMarkdown ==
  StatusSelected =>
    IF m_run.raised = NoExc
    THEN final_report = m_run.items[Len(m_run.items)]
    ELSE final_report = EmptyStr


====
